---- MODULE Spec2Model ----
(***************************************************************************)
(* A model of the Markov chain notebook (src/Markov.ipynb): WeightMap, a   *)
(* defaultdict of integer weights with a weighted random draw, and         *)
(* MarkovNode, a WeightMap with a payload (data), looked up in a list of   *)
(* nodes by payload, trained by inc and walked by its generator __iter__.  *)
(*                                                                         *)
(* A node is its position in the list `nodes`; nodes[i].data is its        *)
(* payload and nodes[i].map its dict, kept as the sequence of its entries  *)
(* [key, w] in insertion order (the order a Python dict keeps, and the     *)
(* order in which entries of equal hash are probed).  Payloads are small   *)
(* Python ints, for which hash(x) = x except hash(-1) = -2; the strings of *)
(* the n-gram cell are written as numerals in base 5, which are not        *)
(* negative and so hash to themselves.                                     *)
(***************************************************************************)
EXTENDS Integers, Sequences, FiniteSets, TLC

VARIABLES nodes, last, ops, pc, node, visited, out, cur, hist, seqs, seen

vars == <<nodes, last, ops, pc, node, visited, out, cur, hist, seqs, seen>>

\* ---------------------------------------------------------------- bounds
\* calls of find, inc and self[key] made on one list of nodes
MaxOps == 2
\* calls of inc made on one list of nodes when no other call is made
MaxIncs == 3
\* payloads a walk may emit before the model stops following it
MaxOut == 3
\* tokens fed to the training loop, over all sequences; in the n-gram cell
\* the tokens of one name, and the tokens generated after the first
MaxLen == 5
\* names the n-gram cell trains
MaxNames == 1

\* payloads (tokens) of the API specification; -1 and -2 share a hash
Payloads == {-2, -1, 0}
\* the increments a caller passes to inc
Increments == {-1, 0, 1, 2}
\* the end-of-sequence token of the training data ('\n' in the notebook)
Sentinel == 1
\* the tokens of the training data other than the sentinel
Tokens == {-2, -1, 0}

NoExc == "none"

\* ------------------------------------------------------- python: dict
\* MarkovNode.__hash__: hash(self.data); CPython's hash of a small int is
\* the int itself, except that -1 is reserved and hashes to -2.
hash(d) == IF d = -1 THEN -2 ELSE d

MarkovNode(d) == [data |-> d, map |-> <<>>]

RECURSIVE lookdict(_, _, _, _, _)
RECURSIVE dict_equal(_, _, _, _)
RECURSIVE dict_equal_from(_, _, _, _, _)

\* The lookup of key q in the dict of node b, from entry i on.  MarkovNode
\* defines __hash__ and inherits dict's __eq__: a stored key matches when
\* its hash equals q's and it is q itself or its dict compares equal to q's.
\* stack holds the comparisons in progress: meeting one again is Python's
\* unbounded recursion, which ends in RecursionError.
lookdict(ns, b, q, i, stack) ==
    IF i > Len(ns[b].map) THEN [t |-> "missing", pos |-> 0]
    ELSE LET k == ns[b].map[i].key IN
         IF hash(ns[k].data) # hash(ns[q].data)
         THEN lookdict(ns, b, q, i + 1, stack)
         ELSE IF k = q THEN [t |-> "found", pos |-> i]
         ELSE LET c == dict_equal(ns, k, q, stack) IN
              IF c = "error" THEN [t |-> "error", pos |-> 0]
              ELSE IF c = "true" THEN [t |-> "found", pos |-> i]
              ELSE lookdict(ns, b, q, i + 1, stack)

\* dict.__eq__ of node a with node b: equal lengths, and every key of a is
\* found in b with an equal weight.
dict_equal(ns, a, b, stack) ==
    IF <<a, b>> \in stack THEN "error"
    ELSE IF Len(ns[a].map) # Len(ns[b].map) THEN "false"
    ELSE dict_equal_from(ns, a, b, 1, stack \cup {<<a, b>>})

dict_equal_from(ns, a, b, i, stack) ==
    IF i > Len(ns[a].map) THEN "true"
    ELSE LET e == ns[a].map[i]
             r == lookdict(ns, b, e.key, 1, stack)
         IN  IF r.t = "error" THEN "error"
             ELSE IF r.t = "missing" THEN "false"
             ELSE IF ns[b].map[r.pos].w # e.w THEN "false"
             ELSE dict_equal_from(ns, a, b, i + 1, stack)

\* self[key] read on a defaultdict(int): the weight found, or __missing__
\* stores int() = 0 under the key and returns it.
getitem(ns, n, q) ==
    LET r == lookdict(ns, n, q, 1, {}) IN
    IF r.t = "error" THEN [ns |-> ns, exc |-> "RecursionError", val |-> 0]
    ELSE IF r.t = "found" THEN [ns |-> ns, exc |-> NoExc, val |-> ns[n].map[r.pos].w]
    ELSE [ns |-> [ns EXCEPT ![n].map = Append(@, [key |-> q, w |-> 0])],
          exc |-> NoExc, val |-> 0]

\* self[key] = v: the entry the key matches gets the value (its stored key
\* is kept), or a new entry is added at the end.
setitem(ns, n, q, v) ==
    LET r == lookdict(ns, n, q, 1, {}) IN
    IF r.t = "error" THEN [ns |-> ns, exc |-> "RecursionError", val |-> 0]
    ELSE IF r.t = "found"
    THEN [ns |-> [ns EXCEPT ![n].map[r.pos].w = v], exc |-> NoExc, val |-> v]
    ELSE [ns |-> [ns EXCEPT ![n].map = Append(@, [key |-> q, w |-> v])],
          exc |-> NoExc, val |-> v]

\* ------------------------------------------------- MarkovNode.find, inc
\* (mutant) only the first node of the list is compared
first_only(ns, d) == IF ns[1].data = d THEN 1 ELSE 0

\* the first node of the list whose data equals d, 0 when there is none
first_with(ns, d) ==
    IF \E i \in 1..Len(ns) : ns[i].data = d
    THEN CHOOSE i \in 1..Len(ns) :
            ns[i].data = d /\ \A j \in 1..(i - 1) : ns[j].data # d
    ELSE 0

\* (mutant) with add, a node is created whether or not one exists
find_always_add(ns, d, add) ==
    LET i == first_with(ns, d) IN
    IF add THEN [ns |-> Append(ns, MarkovNode(d)), exc |-> NoExc, val |-> Len(ns) + 1]
    ELSE IF i # 0 THEN [ns |-> ns, exc |-> NoExc, val |-> i]
    ELSE [ns |-> ns, exc |-> "KeyError", val |-> 0]

\* (mutant) on a miss without add, None is returned in place of the raise
find_or_none(ns, d, add) ==
    LET i == first_with(ns, d) IN
    IF i # 0 THEN [ns |-> ns, exc |-> NoExc, val |-> i]
    ELSE IF ~add THEN [ns |-> ns, exc |-> NoExc, val |-> 0]
    ELSE [ns |-> Append(ns, MarkovNode(d)), exc |-> NoExc, val |-> Len(ns) + 1]

\* (mutant) the add flag is ignored: a miss always creates the node
find_adding(ns, d, add) ==
    LET i == first_with(ns, d) IN
    IF i # 0 THEN [ns |-> ns, exc |-> NoExc, val |-> i]
    ELSE [ns |-> Append(ns, MarkovNode(d)), exc |-> NoExc, val |-> Len(ns) + 1]

\* MarkovNode.find(nodes, data, add)
find(ns, d, add) ==
    LET i == first_with(ns, d) IN
    IF i # 0 THEN [ns |-> ns, exc |-> NoExc, val |-> i]
    ELSE IF ~add THEN [ns |-> ns, exc |-> "KeyError", val |-> 0]
    ELSE [ns |-> Append(ns, MarkovNode(d)), exc |-> NoExc, val |-> Len(ns) + 1]

\* self.inc(nodes, childData, increment): self[childNode] += increment is a
\* read of self[childNode] followed by a store of the sum.
inc(ns, self, childData, increment) ==
    LET f == find(ns, childData, TRUE)
        g == getitem(f.ns, self, f.val)
        s == setitem(g.ns, self, f.val, g.val + increment)
    IN  IF g.exc # NoExc THEN [ns |-> g.ns, exc |-> g.exc, val |-> 0]
        ELSE IF s.exc # NoExc THEN [ns |-> s.ns, exc |-> s.exc, val |-> 0]
        ELSE [ns |-> s.ns, exc |-> NoExc, val |-> f.val]

\* ------------------------------------------- WeightMap.__call__, bool
\* list(self.values()) summed up to entry i (itertools.accumulate)
RECURSIVE cum_weights(_, _)
cum_weights(m, i) == IF i = 0 THEN 0 ELSE cum_weights(m, i - 1) + m[i].w

\* (mutant) bisect_left in place of bisect_right
RECURSIVE bisect_left(_, _, _, _)
bisect_left(m, x, lo, hi) ==
    IF lo >= hi THEN lo
    ELSE LET mid == (lo + hi) \div 2 IN
         IF cum_weights(m, mid + 1) < x THEN bisect_left(m, x, mid + 1, hi)
         ELSE bisect_left(m, x, lo, mid)

\* bisect.bisect_right(cum_weights, x, lo, hi) on 0-based positions: the
\* binary search random.choices makes, whatever the order of the sums
RECURSIVE bisect(_, _, _, _)
bisect(m, x, lo, hi) ==
    IF lo >= hi THEN lo
    ELSE LET mid == (lo + hi) \div 2 IN
         IF x < cum_weights(m, mid + 1) THEN bisect(m, x, lo, mid)
         ELSE bisect(m, x, mid + 1, hi)

total(m) == cum_weights(m, Len(m))

\* (mutant) the position drawn is returned in place of the key it holds
choices_index(m, x) ==
    IF Len(m) = 0 THEN [exc |-> "IndexError", val |-> 0]
    ELSE IF total(m) <= 0 THEN [exc |-> "ValueError", val |-> 0]
    ELSE [exc |-> NoExc, val |-> bisect(m, x, 0, Len(m) - 1) + 1]

\* (mutant) random.choices without the check of the total, as before
\* Python 3.9: a total of 0 draws the last key
choices_unchecked(m, x) ==
    IF Len(m) = 0 THEN [exc |-> "IndexError", val |-> 0]
    ELSE [exc |-> NoExc, val |-> m[bisect(m, x, 0, Len(m) - 1) + 1].key]

\* random.choices(list(self.keys()), list(self.values()))[0] as CPython 3.10
\* computes it: IndexError on cum_weights[-1] of an empty dict, ValueError
\* when the total is not positive, else the key at
\* bisect(cum_weights, random() * total, 0, n - 1).  x is the integer part
\* of random() * total: the sums are integers, so the search sees no more.
choices(m, x) ==
    IF Len(m) = 0 THEN [exc |-> "IndexError", val |-> 0]
    ELSE IF total(m) <= 0 THEN [exc |-> "ValueError", val |-> 0]
    ELSE [exc |-> NoExc, val |-> m[bisect(m, x, 0, Len(m) - 1) + 1].key]

\* what random() * total can be for the dict m
Draws(m) == IF total(m) > 0 THEN 0..(total(m) - 1) ELSE {0}

\* (mutant) a node counts as true when its weights sum to more than 0
bool_by_total(m) == total(m) > 0

\* (mutant) `while node is not None:` in place of `while node:`
bool_not_none(m) == TRUE

\* truth value of a node, `while node:`: a dict is true when it has entries
bool(m) == Len(m) > 0

\* --------------------------------------------------------------- state
\* the weight node self holds under the very node key: 0 when key is no
\* key of its dict (or not yet a node)
weight(ns, self, key) ==
    IF \E i \in 1..Len(ns[self].map) : ns[self].map[i].key = key
    THEN LET i == CHOOSE i \in 1..Len(ns[self].map) : ns[self].map[i].key = key
         IN  ns[self].map[i].w
    ELSE 0

has_key(ns, self, key) == \E i \in 1..Len(ns[self].map) : ns[self].map[i].key = key

NoCall ==
    [op |-> "none", self |-> 0, arg |-> 0, amt |-> 0, exc |-> NoExc, val |-> 0,
     w0 |-> 0, rep |-> FALSE, pamt |-> 0, pw0 |-> 0, pval |-> 0]

\* The record of a call: its operation, receiver, argument and increment,
\* what it raised or returned, and w0, the weight of the edge it is about
\* before it ran.  For find_or_create and inc, rep says that the call before
\* it was the same operation on the same receiver and argument; pamt, pw0 and
\* pval are then that call's increment, w0 and return value.
Called(op, self, arg, amt, exc, val, w0) ==
    LET rep == /\ op \in {"find_or_create", "inc"}
               /\ last.op = op /\ last.self = self /\ last.arg = arg
    IN
    [op |-> op, self |-> self, arg |-> arg, amt |-> amt, exc |-> exc, val |-> val,
     w0 |-> w0, rep |-> rep,
     pamt |-> IF rep THEN last.amt ELSE 0,
     pw0 |-> IF rep THEN last.w0 ELSE 0,
     pval |-> IF rep THEN last.val ELSE 0]

\* nodes = [MarkovNode(a)], as the notebook's cells build the list before
\* training
InitNodes == {<<MarkovNode(a)>> : a \in Payloads}

Init ==
    /\ nodes \in InitNodes
    /\ last = NoCall
    /\ ops = 0
    /\ pc = "idle"
    /\ node = 0
    /\ visited = <<>>
    /\ out = <<>>
    /\ cur = 0
    /\ hist = <<>>
    /\ seqs = 0
    /\ seen = {}

\* no walk is in progress; the calls of find, inc and self[key] are counted
\* and at most MaxOps are made, a draw is not counted
Idle == pc = "idle"
Counted == pc = "idle" /\ ops < MaxOps

\* MarkovNode.find(nodes, d): lookup without creation
Find(d) ==
    /\ Counted
    /\ LET r == find(nodes, d, FALSE) IN
       /\ nodes' = r.ns
       /\ last' = Called("find", 0, d, 0, r.exc, r.val, 0)
    /\ ops' = ops + 1
    /\ UNCHANGED <<pc, node, visited, out, cur, hist, seqs, seen>>

\* MarkovNode.find(nodes, d, True): find_or_create
FindOrCreate(d) ==
    /\ Counted
    /\ LET r == find(nodes, d, TRUE) IN
       /\ nodes' = r.ns
       /\ last' = Called("find_or_create", 0, d, 0, r.exc, r.val, 0)
    /\ ops' = ops + 1
    /\ UNCHANGED <<pc, node, visited, out, cur, hist, seqs, seen>>

\* nodes[self].inc(nodes, d, a): train_step, as one of at most max calls
IncUpTo(max, self, d, a) ==
    /\ pc = "idle"
    /\ ops < max
    /\ LET r == inc(nodes, self, d, a)
           child == first_with(nodes, d)
       IN  /\ nodes' = r.ns
           /\ last' = Called("inc", self, d, a, r.exc, r.val,
                             IF child = 0 THEN 0 ELSE weight(nodes, self, child))
    /\ ops' = ops + 1
    /\ UNCHANGED <<pc, node, visited, out, cur, hist, seqs, seen>>

Inc(self, d, a) == IncUpTo(MaxOps, self, d, a)

\* nodes[self][nodes[key]]: reading a weight by key
GetItem(self, key) ==
    /\ Counted
    /\ LET r == getitem(nodes, self, key) IN
       /\ nodes' = r.ns
       /\ last' = Called("getitem", self, key, 0, r.exc, r.val,
                         weight(nodes, self, key))
    /\ ops' = ops + 1
    /\ UNCHANGED <<pc, node, visited, out, cur, hist, seqs, seen>>

\* nodes[self](): one weighted draw
Call(self) ==
    /\ Idle
    /\ \E x \in Draws(nodes[self].map) :
         LET r == choices(nodes[self].map, x) IN
         last' = Called("call", self, 0, 0, r.exc, r.val, 0)
    /\ UNCHANGED <<nodes, ops, pc, node, visited, out, cur, hist, seqs, seen>>

\* iter(nodes[self]): the generator of __iter__ is created, not yet run
Iter(self) ==
    /\ pc = "idle"
    /\ pc' = "start"
    /\ node' = self
    /\ last' = Called("iter", self, 0, 0, NoExc, 0, 0)
    /\ UNCHANGED <<nodes, ops, visited, out, cur, hist, seqs, seen>>

\* the generator runs to its next yield: in the loop when n is true, the
\* yield after the loop when it is not
Yield(n) ==
    /\ node' = n
    /\ visited' = Append(visited, n)
    /\ out' = Append(out, nodes[n].data)
    /\ pc' = IF bool(nodes[n].map) THEN "loop" ELSE "last"

\* next() on the generator of __iter__: from its start or from the yield in
\* the loop (node = node(), then the loop's test) to the next yield, from the
\* last yield to its end; an exception of the draw leaves the generator
IterNext ==
    /\ \/ /\ pc = "start"
          /\ Yield(node)
       \/ /\ pc = "loop"
          /\ Len(out) < MaxOut
          /\ \E x \in Draws(nodes[node].map) :
               LET r == choices(nodes[node].map, x) IN
               IF r.exc # NoExc
               THEN pc' = r.exc /\ UNCHANGED <<node, visited, out>>
               ELSE Yield(r.val)
       \/ /\ pc = "last"
          /\ pc' = "done"
          /\ UNCHANGED <<node, visited, out>>
    /\ UNCHANGED <<nodes, last, ops, cur, hist, seqs, seen>>

Next ==
    \/ \E d \in Payloads : Find(d)
    \/ \E d \in Payloads : FindOrCreate(d)
    \/ \E self \in 1..Len(nodes), d \in Payloads, a \in Increments : Inc(self, d, a)
    \/ \E self \in 1..Len(nodes), key \in 1..Len(nodes) : GetItem(self, key)
    \/ \E self \in 1..Len(nodes) : Call(self)
    \/ \E self \in 1..Len(nodes) : Iter(self)
    \/ IterNext

Spec == Init /\ [][Next]_vars

\* train_step with non-negative increments only, then a walk
NonNegative == {a \in Increments : a >= 0}

NextNonNeg ==
    \/ \E self \in 1..Len(nodes), d \in Payloads, a \in NonNegative : Inc(self, d, a)
    \/ \E self \in 1..Len(nodes) : Iter(self)
    \/ IterNext

SpecNonNeg == Init /\ [][NextNonNeg]_vars

\* train_step alone, with the increments training makes
Positive == {a \in Increments : a > 0}

NextInc ==
    \E self \in 1..Len(nodes), d \in Payloads, a \in Positive :
        IncUpTo(MaxIncs, self, d, a)

SpecInc == Init /\ [][NextInc]_vars

\* ------------------------------------------------- the training loops
\* nodes = [MarkovNode(S)]; node = nodes[0]
InitTrain ==
    /\ nodes \in {<<MarkovNode(S)>> : S \in Tokens \cup {Sentinel}}
    /\ last = NoCall
    /\ ops = 0
    /\ pc = "train"
    /\ node = 0
    /\ visited = <<>>
    /\ out = <<>>
    /\ cur = 1
    /\ hist = <<nodes[1].data>>
    /\ seqs = 0
    /\ seen = {}

\* node = node.inc(nodes, c) for the next token c of the sequence, which
\* the sentinel ends; an exception of inc ends the training.  seen records
\* the pairs (payload of node, c) the training data has held so far.
TrainToken(c) ==
    /\ pc = "train"
    /\ ops < MaxLen
    /\ LET r == inc(nodes, cur, c, 1) IN
       /\ nodes' = r.ns
       /\ IF r.exc # NoExc
          THEN pc' = r.exc /\ UNCHANGED <<cur, hist>>
          ELSE /\ cur' = r.val
               /\ hist' = Append(hist, c)
               /\ pc' = IF c = Sentinel THEN "ended" ELSE "train"
    /\ seen' = seen \cup {<<nodes[cur].data, c>>}
    /\ ops' = ops + 1
    /\ UNCHANGED <<last, node, visited, out, seqs>>

\* the next sequence (name) starts over: node = nodes[0]
TrainName ==
    /\ pc = "ended"
    /\ ops < MaxLen
    /\ pc' = "train"
    /\ cur' = 1
    /\ hist' = <<nodes[1].data>>
    /\ seqs' = seqs + 1
    /\ UNCHANGED <<nodes, last, ops, node, visited, out, seen>>

NextTrain ==
    \/ \E c \in Tokens \cup {Sentinel} : TrainToken(c)
    \/ TrainName

SpecTrain == InitTrain /\ [][NextTrain]_vars

\* ------------------------------------------- training, then propagation
\* the training loops are over (the data is used up): the cell goes on to
\* its propagation, `for c in nodes[0]`, or a caller walks from any node
TrainEnd ==
    /\ pc \in {"train", "ended"}
    /\ pc' = "idle"
    /\ UNCHANGED <<nodes, last, ops, node, visited, out, cur, hist, seqs, seen>>

NextGen ==
    \/ NextTrain
    \/ TrainEnd
    \/ \E self \in 1..Len(nodes) : Iter(self)
    \/ IterNext

SpecGen == InitTrain /\ [][NextGen]_vars

\* ------------------------------------------------- the n-gram cell
\* n = 3 (the bound variables of this module use the name n)
N == 3

\* Characters are the numerals 1..4: Sentinel is '\n', 2 is 'A', 3 is 'b' and
\* 4 is 'B'.  A string is the sequence of its characters; as the payload of
\* a node it is the number its characters write in base 5 ('' is 0), so
\* that equal strings are equal payloads and, like Python's strings in
\* practice, different strings have different hashes.
Letters == {2, 3}

RECURSIVE str(_)
str(cs) == IF cs = <<>> THEN 0 ELSE str(SubSeq(cs, 1, Len(cs) - 1)) * 5 + cs[Len(cs)]

RECURSIVE chars(_)
chars(d) == IF d = 0 THEN <<>> ELSE Append(chars(d \div 5), d % 5)

\* str.upper(): 'b' becomes 'B', '\n' and 'A' stay
upper(cs) == [i \in 1..Len(cs) |-> IF cs[i] = 3 THEN 4 ELSE cs[i]]

\* cs[:k] and cs[-k:]
prefix(cs, k) == SubSeq(cs, 1, IF k < Len(cs) THEN k ELSE Len(cs))
suffix(cs, k) == SubSeq(cs, IF k < Len(cs) THEN Len(cs) - k + 1 ELSE 1, Len(cs))

\* (mutant) the windows of the name without its last character
sliding_window_short(cs, k) ==
    [i \in 1..(IF Len(cs) - 1 >= k THEN Len(cs) - k ELSE 0) |-> SubSeq(cs, i, i + k - 1)]

\* more_itertools.sliding_window(cs, k): the windows of k consecutive
\* characters, none when cs is shorter than k
sliding_window(cs, k) ==
    [i \in 1..(IF Len(cs) >= k THEN Len(cs) - k + 1 ELSE 0) |-> SubSeq(cs, i, i + k - 1)]

\* the names: letters, at most MaxLen - 1 of them, and the '\n' appended
names ==
    {Append(ls, Sentinel) : ls \in UNION {[1..k -> Letters] : k \in 0..(MaxLen - 1)}}

\* nodes = [MarkovNode('')]
InitGram ==
    /\ nodes = <<MarkovNode(str(<<>>))>>
    /\ last = NoCall
    /\ ops = 0
    /\ pc = "name"
    /\ node = 0
    /\ visited = <<>>
    /\ out = <<>>
    /\ cur = 0
    /\ hist = <<>>
    /\ seqs = 0
    /\ seen = {}

\* the loop goes on with the next window of the name, or the next name
NextWindow(name, i) ==
    IF i <= Len(sliding_window(upper(name), N + 1)) THEN "window" ELSE "name"

\* for name in names: nodes[0].inc(nodes, name[:n].upper()); hist is the
\* name and cur the window of it that is next
GramName(name) ==
    /\ pc = "name"
    /\ seqs < MaxNames
    /\ LET r == inc(nodes, 1, str(upper(prefix(name, N))), 1) IN
       /\ nodes' = r.ns
       /\ pc' = IF r.exc # NoExc THEN r.exc ELSE NextWindow(name, 1)
    /\ hist' = name
    /\ cur' = 1
    /\ seqs' = seqs + 1
    /\ UNCHANGED <<last, ops, node, visited, out, seen>>

\* for gramnletter in sliding_window(name.upper(), n+1):
\*     MarkovNode.find(nodes, gram, True).inc(nodes, letter)
\* seen records the gram and the letter
GramWindow ==
    /\ pc = "window"
    /\ LET gramnletter == sliding_window(upper(hist), N + 1)[cur]
           gram == str(SubSeq(gramnletter, 1, N))
           letter == str(<<gramnletter[N + 1]>>)
           f == find(nodes, gram, TRUE)
           r == inc(f.ns, f.val, letter, 1)
       IN  /\ nodes' = r.ns
           /\ seen' = seen \cup {<<gram, letter>>}
           /\ pc' = IF r.exc # NoExc THEN r.exc ELSE NextWindow(hist, cur + 1)
    /\ cur' = cur + 1
    /\ UNCHANGED <<last, ops, node, visited, out, hist, seqs>>

\* s = nodes[0]().data: the training loop is over, one string is generated;
\* out is s
GramStart ==
    /\ pc = "name"
    /\ \E x \in Draws(nodes[1].map) :
         LET r == choices(nodes[1].map, x) IN
         IF r.exc # NoExc
         THEN pc' = r.exc /\ out' = out
         ELSE pc' = "generate" /\ out' = chars(nodes[r.val].data)
    /\ UNCHANGED <<nodes, last, ops, node, visited, cur, hist, seqs, seen>>

\* while s[-1] != '\n': s += MarkovNode.find(nodes, s[-n:])().data
\* and print(s) when the loop ends; node is the node found last.  A string
\* of more than MaxLen characters is not followed further.
GramStep ==
    /\ pc = "generate"
    /\ IF out = <<>>
       THEN pc' = "IndexError" /\ UNCHANGED <<out, node>>
       ELSE IF out[Len(out)] = Sentinel
       THEN pc' = "printed" /\ UNCHANGED <<out, node>>
       ELSE /\ Len(out) <= MaxLen
            /\ LET f == find(nodes, str(suffix(out, N)), FALSE) IN
               IF f.exc # NoExc
               THEN pc' = f.exc /\ UNCHANGED <<out, node>>
               ELSE /\ node' = f.val
                    /\ \E x \in Draws(nodes[f.val].map) :
                         LET r == choices(nodes[f.val].map, x) IN
                         IF r.exc # NoExc
                         THEN pc' = r.exc /\ out' = out
                         ELSE /\ pc' = "generate"
                              /\ out' = out \o chars(nodes[r.val].data)
    /\ UNCHANGED <<nodes, last, ops, visited, cur, hist, seqs, seen>>

NextGram ==
    \/ \E name \in names : GramName(name)
    \/ GramWindow
    \/ GramStart
    \/ GramStep

SpecGram == InitGram /\ [][NextGram]_vars

\* ------------------------------------------------------------ claims
\* the number of positions i with h[i] = u and h[i+1] = v
CountAdjacent(h, u, v) ==
    Cardinality({i \in 1..(Len(h) - 1) : h[i] = u /\ h[i + 1] = v})

\* the position at which u first occurs in h
FirstAt(h, u) == CHOOSE i \in 1..Len(h) : h[i] = u /\ \A j \in 1..(i - 1) : h[j] # u

\* the payloads of ns are the distinct values of h in order of first occurrence
InOrderOfFirstOccurrence(ns, h) ==
    /\ {ns[i].data : i \in 1..Len(ns)} = {h[i] : i \in 1..Len(h)}
    /\ \A i, j \in 1..Len(ns) :
         i < j => ns[i].data # ns[j].data /\ FirstAt(h, ns[i].data) < FirstAt(h, ns[j].data)

\* the nodes reachable from the nodes of S along edges of positive weight
RECURSIVE Reachable(_, _)
Reachable(ns, S) ==
    LET T == S \cup {k \in 1..Len(ns) :
                       \E n \in S : \E i \in 1..Len(ns[n].map) :
                          ns[n].map[i].key = k /\ ns[n].map[i].w > 0}
    IN  IF T = S THEN S ELSE Reachable(ns, T)

\* C1: training one sequence T from a fresh list [S] (hist = S.T) yields
\* nodes whose payloads are the distinct values of S.T in order of first
\* occurrence, and the weight from u to v is the number of times v follows u
\* in S.T, with no entry for a pair that never occurs adjacently.
C1_TransitionCounts ==
    (pc \in {"train", "ended"} /\ seqs = 0) =>
        /\ InOrderOfFirstOccurrence(nodes, hist)
        /\ \A u, v \in 1..Len(nodes) :
             LET c == CountAdjacent(hist, nodes[u].data, nodes[v].data) IN
             IF c = 0 THEN ~has_key(nodes, u, v)
             ELSE has_key(nodes, u, v) /\ weight(nodes, u, v) = c

\* C5: after training sequences that each start over at the start node and
\* each end with the sentinel, which occurs nowhere else, the sentinel node
\* has no outgoing edges and is reachable along edges of positive weight
\* from every node reachable from the start node.
C5_SentinelReachable ==
    (pc = "ended" /\ nodes[1].data # Sentinel) =>
        LET e == first_with(nodes, Sentinel) IN
        /\ ~bool(nodes[e].map)
        /\ \A n \in Reachable(nodes, {1}) : e \in Reachable(nodes, {n})

\* the sum of the weights of a dict, and whether all of them are 0
RECURSIVE SumOfWeights(_)
SumOfWeights(m) == IF m = <<>> THEN 0 ELSE Head(m).w + SumOfWeights(Tail(m))

AllZero(m) == \A i \in 1..Len(m) : m[i].w = 0

Entries(n) == Len(nodes[n].map)

Errors == {"IndexError", "ValueError", "RecursionError", "KeyError"}

\* what the walk has emitted is the payloads of the nodes it visited
EmittedVisited ==
    /\ Len(out) = Len(visited)
    /\ \A i \in 1..Len(out) : out[i] = nodes[visited[i]].data

\* C2 (as stated): a walk on a graph built with increments >= 0 stops
\* exactly at the first visited node whose total outgoing weight is 0: that
\* node's payload is the last element of the output, emitted exactly once,
\* and no earlier visited node has total outgoing weight 0.
C2_StopsAtZeroTotal ==
    LET n == Len(visited) IN
    /\ EmittedVisited
    /\ pc \notin Errors
    /\ \A i \in 1..(n - 1) : SumOfWeights(nodes[visited[i]].map) > 0
    /\ (n > 0 /\ SumOfWeights(nodes[visited[n]].map) = 0) => pc \in {"last", "done"}
    /\ pc \in {"last", "done"} =>
         /\ n > 0
         /\ SumOfWeights(nodes[visited[n]].map) = 0
         /\ \A i \in 1..(n - 1) : visited[i] # visited[n]

\* C2 (amended): the walk stops exactly at the first visited node that has
\* no edge entries: its payload is the last element of the output, emitted
\* exactly once, and every earlier visited node has entries of positive
\* total weight.  A visited node whose entries all weigh 0 does not end the
\* walk: its payload is emitted and the draw then raises ValueError.
C2_StopsAtChildless ==
    LET n == Len(visited) IN
    /\ EmittedVisited
    /\ \A i \in 1..(n - 1) :
         Entries(visited[i]) > 0 /\ SumOfWeights(nodes[visited[i]].map) > 0
    /\ (n > 0 /\ Entries(visited[n]) = 0) => pc \in {"last", "done"}
    /\ pc \in {"last", "done"} =>
         /\ n > 0
         /\ Entries(visited[n]) = 0
         /\ \A i \in 1..(n - 1) : visited[i] # visited[n]
    /\ pc \in Errors =>
         /\ pc = "ValueError"
         /\ n > 0
         /\ Entries(visited[n]) > 0
         /\ AllZero(nodes[visited[n]].map)

\* a walk went through a node with children and stopped at a childless one
C2_Witness == pc = "done" /\ Len(out) >= 2 /\ Entries(visited[1]) > 0

\* C3: find_or_create returns the first node whose payload equals p and
\* adds at most one node; called again with the same p right after, it
\* returns the same node and adds none.
C3_FindOrCreateIdempotent ==
    /\ [](last.op = "find_or_create" =>
            /\ last.exc = NoExc
            /\ last.val \in 1..Len(nodes)
            /\ nodes[last.val].data = last.arg
            /\ \A j \in 1..(last.val - 1) : nodes[j].data # last.arg
            /\ last.rep => last.val = last.pval)
    /\ [][(last'.op = "find_or_create" /\ ops' = ops + 1) =>
            /\ Len(nodes') <= Len(nodes) + 1
            /\ \A i \in 1..Len(nodes) : nodes'[i] = nodes[i]
            /\ last'.rep => nodes' = nodes]_vars

\* find_or_create created node 2 and, called again, returned it
C3_Witness ==
    /\ last.op = "find_or_create" /\ last.rep
    /\ ops = 2 /\ Len(nodes) = 2 /\ last.val = 2

\* C4: the list never holds two nodes with equal payloads.
C4_UniquePayloads ==
    \A i, j \in 1..Len(nodes) : i # j => nodes[i].data # nodes[j].data

\* two calls each added a node
C4_Witness == Len(nodes) = 3 /\ ops = 2

\* C6: a draw from a dict with a positive weight returns only a key of
\* the dict whose weight is positive, never a key of weight 0 or an absent
\* one; and it does return a key when no weight is negative.
C6_DrawsPositiveKey ==
    (last.op = "call" /\ \E i \in 1..Entries(last.self) : nodes[last.self].map[i].w > 0) =>
        /\ last.exc = NoExc =>
             /\ has_key(nodes, last.self, last.val)
             /\ weight(nodes, last.self, last.val) > 0
        /\ (\A i \in 1..Entries(last.self) : nodes[last.self].map[i].w >= 0) =>
             last.exc = NoExc

\* a key was drawn from a dict that holds a key of weight 0 and lacks a node
C6_Witness ==
    /\ last.op = "call" /\ last.exc = NoExc
    /\ \E i \in 1..Entries(last.self) : nodes[last.self].map[i].w = 0
    /\ \E k \in 1..Len(nodes) : ~has_key(nodes, last.self, k)

\* C7: two calls of train_step in a row on the same node and child payload,
\* with increments a1 and a2, leave the edge at w + a1 + a2, w its weight
\* before (0 when absent), and both return the same child.
C7_TrainStepAdditive ==
    (last.op = "inc" /\ last.rep) =>
        /\ last.exc = NoExc
        /\ last.val = last.pval
        /\ weight(nodes, last.self, last.val) = last.pw0 + last.pamt + last.amt

C9_WeightsNonNegative ==
    /\ \A n \in 1..Len(nodes) : \A i \in 1..Entries(n) : nodes[n].map[i].w >= 0
    /\ (last.op = "inc" /\ last.amt < 0) => last.exc # NoExc

\* C10: a draw from a dict without keys, or whose weights are all 0, raises
\* an error and returns no key; the dicts are as before; in a walk the
\* error leaves the generator instead of ending the output.
C10_EmptyDrawRaises ==
    /\ []((last.op = "call" /\ AllZero(nodes[last.self].map)) => last.exc \in Errors)
    /\ [][last'.op = "call" => nodes' = nodes]_vars
    /\ [][(pc = "loop" /\ AllZero(nodes[node].map)) =>
            (pc' \in Errors /\ out' = out /\ nodes' = nodes)]_vars
    /\ [][(pc \in Errors) => (pc' = pc)]_vars

\* a walk reached a node whose entries all weigh 0, and the draw raised
C10_Witness == pc = "ValueError" /\ Len(out) >= 1 /\ AllZero(nodes[node].map)

\* C11: find without creation raises KeyError exactly when no node has the
\* payload asked for, and then the list of nodes and every dict are as
\* before; when a node has it, the first such node is returned, no error.
C11_FindRaisesOnMiss ==
    /\ [](last.op = "find" =>
            /\ last.exc \in {NoExc, "KeyError"}
            /\ last.exc = "KeyError" <=>
                  ~\E i \in 1..Len(nodes) : nodes[i].data = last.arg
            /\ last.exc = NoExc =>
                  /\ last.val \in 1..Len(nodes)
                  /\ nodes[last.val].data = last.arg)
    /\ [][(last'.op = "find" /\ ops' = ops + 1 /\ last'.exc = "KeyError") =>
            nodes' = nodes]_vars

\* find raised KeyError on a list of two nodes, one of them with an edge
C11_Witness ==
    /\ last.op = "find" /\ last.exc = "KeyError"
    /\ Len(nodes) = 2 /\ \E n \in 1..Len(nodes) : Entries(n) > 0

\* C12: a walk, complete or abandoned after any number of steps, and a
\* successful find leave the list of nodes, the keys of every dict and
\* every weight as they were.
C12_WalkAndFindReadOnly ==
    [][(\/ pc # "idle"
        \/ pc' # "idle"
        \/ last'.op = "find" /\ ops' = ops + 1 /\ last'.exc = NoExc) =>
          nodes' = nodes]_vars

\* a walk is under way on a graph with edges, two payloads emitted so far
C12_Witness ==
    /\ pc = "loop" /\ Len(out) = 2
    /\ \E n \in 1..Len(nodes) : Entries(n) > 0

\* C13: a walk from a start node without entries makes no draw and emits
\* exactly the start node's payload.
C13_ChildlessStart ==
    (last.op = "iter" /\ Entries(last.self) = 0) =>
        /\ pc \in {"start", "last", "done"}
        /\ pc = "start" => out = <<>>
        /\ pc # "start" => out = <<nodes[last.self].data>>

\* the walk from a childless node of a graph with other nodes and edges
\* has ended
C13_Witness ==
    /\ pc = "done" /\ last.op = "iter" /\ Entries(last.self) = 0
    /\ Len(nodes) >= 2 /\ \E n \in 1..Len(nodes) : Entries(n) > 0

\* C15: for a dict of total weight W > 0, of the W values a uniform draw
\* in [0, W) can take, exactly weight(k) select the key k, for every key k
\* of the dict.
C15_DrawCountsWeights ==
    LET m == nodes[last.self].map
        W == SumOfWeights(m)
    IN  (last.op = "call" /\ W > 0) =>
            \A i \in 1..Len(m) :
                Cardinality({x \in 0..(W - 1) :
                               /\ choices(m, x).exc = NoExc
                               /\ choices(m, x).val = m[i].key}) = m[i].w

\* C16: train_step(from, p, amount) returns the node with payload p and
\* changes no edge but the one from `from` to that node: every other edge of
\* `from` and every edge of every other node keeps its weight, no entry
\* appears or disappears elsewhere, the nodes there were keep position and
\* payload, and at most one node is added, at the end, without edges.
C16_TrainStepFrame ==
    [][(last'.op = "inc" /\ ops' = ops + 1) =>
          LET self == last'.self
              c == last'.val
          IN  /\ last'.exc = NoExc
              /\ c \in 1..Len(nodes')
              /\ nodes'[c].data = last'.arg
              /\ Len(nodes') \in {Len(nodes), Len(nodes) + 1}
              /\ \A i \in 1..Len(nodes) : nodes'[i].data = nodes[i].data
              /\ Len(nodes') = Len(nodes) + 1 =>
                    /\ c = Len(nodes')
                    /\ nodes'[c].map = <<>>
              /\ \A n \in 1..Len(nodes), k \in 1..Len(nodes') :
                    <<n, k>> # <<self, c>> =>
                        /\ has_key(nodes', n, k) = has_key(nodes, n, k)
                        /\ weight(nodes', n, k) = weight(nodes, n, k)]_vars

\* C17: the output of a walk on a trained graph begins with the payload of
\* the node the walk started from, every two consecutive elements are an
\* edge of positive weight and a pair the training data held adjacently,
\* and every element is the payload of a node.
C17_OutputFollowsEdges ==
    LET n == Len(visited) IN
    /\ EmittedVisited
    /\ n > 0 => visited[1] = last.self
    /\ \A i \in 1..n : \E k \in 1..Len(nodes) : nodes[k].data = out[i]
    /\ \A i \in 1..(n - 1) :
         /\ has_key(nodes, visited[i], visited[i + 1])
         /\ weight(nodes, visited[i], visited[i + 1]) > 0
         /\ <<out[i], out[i + 1]>> \in seen

\* a walk over three nodes of a graph trained with two sequences has ended
C17_Witness ==
    /\ pc = "done" /\ Len(out) = 3 /\ seqs = 1
    /\ Cardinality({visited[i] : i \in 1..Len(visited)}) = 3

\* no childless node is reachable from node s: every node reachable from s
\* along edges of positive weight has an edge of positive weight itself
NoChildlessReachable(s) ==
    \A n \in Reachable(nodes, {s}) :
        \E i \in 1..Entries(n) : nodes[n].map[i].w > 0

\* C19: when no childless node is reachable from the start node along edges
\* of positive weight, the walk never stops: it neither ends nor fails, and
\* every resumption emits one more payload.
C19_WalkNeverStops ==
    /\ []((last.op = "iter" /\ NoChildlessReachable(last.self)) =>
            pc \in {"start", "loop"})
    /\ [][(last.op = "iter" /\ NoChildlessReachable(last.self) /\ pc' # pc) =>
            (pc' = "loop" /\ Len(out') = Len(out) + 1)]_vars

\* the number of characters of the payload of node k
size(k) == Len(chars(nodes[k].data))

\* C14: after n-gram training on any names, short ones included, every
\* child of the start node has a payload of exactly n characters, every
\* child of a node of n characters is a single character (a letter or the
\* sentinel), and the nodes of a single character have no children.
C14_GramLayers ==
    /\ \A i \in 1..Entries(1) : size(nodes[1].map[i].key) = N
    /\ \A g \in 2..Len(nodes) :
         /\ size(g) = N => \A i \in 1..Entries(g) : size(nodes[g].map[i].key) = 1
         /\ size(g) = 1 => Entries(g) = 0

\* C18: after n-gram training on at least one name, generation raises
\* nothing: each window of the last n characters generated, when the
\* string does not end yet, is a gram the training saw followed by a
\* character, its node is found and has a child of positive weight.
C18_GramGenerationFinds ==
    seqs >= 1 =>
        /\ pc \notin Errors
        /\ (pc = "generate" /\ out # <<>> /\ out[Len(out)] # Sentinel) =>
              LET gram == str(suffix(out, N))
                  f == find(nodes, gram, FALSE)
              IN  /\ \E c \in 1..4 : <<gram, c>> \in seen
                  /\ f.exc = NoExc
                  /\ \E i \in 1..Entries(f.val) : nodes[f.val].map[i].w > 0

\* a string was generated that is longer than a gram and a character and
\* is not the name trained last
C18_Witness ==
    /\ pc = "printed" /\ seqs >= 1
    /\ Len(out) >= N + 2 /\ out # upper(hist)

====
